---- MODULE Spec2Model ----
(***************************************************************************)
(* Model of internal/job/vault-cred-sync.go: the VaultCredSync job, whose  *)
(* Run method copies the entries of one Kubernetes secret into the vault.  *)
(*                                                                         *)
(* Keys and path type components are sequences of one-character strings,   *)
(* so that strings.HasPrefix and strings.ToLower are computed.  The other   *)
(* string fields are TLA+ strings, "" being the empty Go string.            *)
(***************************************************************************)
EXTENDS Integers, Sequences, FiniteSets, TLC

VARIABLES
    lastUpdatedTime,  \* VaultCredSync.lastUpdatedTime: <<>> is nil, <<t>> points to t
    pc,               \* "idle": between two calls of Run; "loop": inside the range loop
    outcome,          \* how the last call of Run ended ("none" before the first)
    source,           \* the Source Secret the cluster holds at the cycle's GetSecret
    pending,          \* the keys the range loop has not visited yet
    trace,            \* one record per loop iteration of the cycle, in order
    cursorBefore,     \* lastUpdatedTime as it was when the cycle began
    prev              \* the cycle before: its outcome, the timestamp of its Source
                      \* Secret, and whether that secret's data was this cycle's

vars == <<lastUpdatedTime, pc, outcome, source, pending, trace, cursorBefore, prev>>

\* Timestamps the Source Secret may carry: 1 .. MaxTime.
MaxTime == 2

Times == 1 .. MaxTime

----------------------------------------------------------------------------
\* Constants of the source.

serviceCredSecretKeyPrefix == <<"S","E","R","V","I","C","E","-","C","R","E","D">>

certSecretKeyPrefix == <<"C","E","R","T","S">>

genericSecretKeyPrefix == <<"G","E","N","E","R","I","C">>

caDataKey == "ca.pem"

certDataKey == "cert.crt"

keyDataKey == "key.key"

serviceCredentialUserNameKey == "userName"

serviceCredentialPasswordKey == "password"

----------------------------------------------------------------------------
\* Library functions the source calls.

\* strings.HasPrefix
HasPrefix(s, prefix) ==
    /\ Len(s) >= Len(prefix)
    /\ SubSeq(s, 1, Len(prefix)) = prefix

UpperCase == <<"A","B","C","D","E","F","G","H","I","J","K","L","M",
               "N","O","P","Q","R","S","T","U","V","W","X","Y","Z">>

LowerCase == <<"a","b","c","d","e","f","g","h","i","j","k","l","m",
               "n","o","p","q","r","s","t","u","v","w","x","y","z">>

LowerChar(c) ==
    IF \E i \in 1 .. Len(UpperCase) : UpperCase[i] = c
    THEN LowerCase[CHOOSE i \in 1 .. Len(UpperCase) : UpperCase[i] = c]
    ELSE c

\* strings.ToLower
ToLower(s) == [i \in 1 .. Len(s) |-> LowerChar(s[i])]

\* The nil error.
NilErr == "nil"

\* errors.WithMessagef: nil when err is nil, else err annotated with the message.
WithMessagef(err, message) == IF err = NilErr THEN NilErr ELSE message

\* (*time.Time).Equal on a non-nil cursor.
TimeEqual(t, u) == t = u

----------------------------------------------------------------------------
\* JSON documents, the string values of the Source Secret.  A value is either
\* text that is no JSON object, or an object: a function from member names to
\* JSON values, each a string ("str"), an object of strings ("obj") or a
\* number ("num").

JStr(s) == [t |-> "str", v |-> s]

JObj(m) == [t |-> "obj", v |-> m]

JNum(n) == [t |-> "num", v |-> n]

Text == [kind |-> "text", fields |-> <<>>]

Object(members) == [kind |-> "object", fields |-> members]

\* The empty Go map (a nil map ranges over nothing).
EmptyMap == <<>>

\* json.Unmarshal's handling of one struct field: a member of another JSON
\* type is an UnmarshalTypeError, an absent member leaves the zero value.
MemberFits(doc, name, type) ==
    name \in DOMAIN doc.fields => doc.fields[name].t = type

Member(doc, name, zero) ==
    IF name \in DOMAIN doc.fields THEN doc.fields[name].v ELSE zero

JsonError == "json: cannot unmarshal"

\* json.Unmarshal into a ServiceCredentail
UnmarshalServiceCredentail(secretData) ==
    IF /\ secretData.kind = "object"
       /\ \A n \in {"entityName", "credIndetifier", "userName", "password"} :
             MemberFits(secretData, n, "str")
       /\ MemberFits(secretData, "additionalData", "obj")
    THEN [err |-> NilErr,
          EntityName |-> Member(secretData, "entityName", ""),
          CredIndentifier |-> Member(secretData, "credIndetifier", ""),
          UserName |-> Member(secretData, "userName", ""),
          Password |-> Member(secretData, "password", ""),
          AdditionalData |-> Member(secretData, "additionalData", EmptyMap)]
    ELSE [err |-> JsonError]

\* json.Unmarshal into a CertificateData
UnmarshalCertificateData(secretData) ==
    IF /\ secretData.kind = "object"
       /\ \A n \in {"entityName", "certIndetifier", "caCert", "key", "cert"} :
             MemberFits(secretData, n, "str")
    THEN [err |-> NilErr,
          EntityName |-> Member(secretData, "entityName", ""),
          CertIndentifier |-> Member(secretData, "certIndetifier", ""),
          CACert |-> Member(secretData, "caCert", ""),
          Key |-> Member(secretData, "key", ""),
          Cert |-> Member(secretData, "cert", "")]
    ELSE [err |-> JsonError]

\* json.Unmarshal into a GenericCredential
UnmarshalGenericCredential(secretData) ==
    IF /\ secretData.kind = "object"
       /\ \A n \in {"credentialType", "entityName", "credIndetifier"} :
             MemberFits(secretData, n, "str")
       /\ MemberFits(secretData, "credential", "obj")
    THEN [err |-> NilErr,
          CredentialType |-> Member(secretData, "credentialType", <<>>),
          EntityName |-> Member(secretData, "entityName", ""),
          CredIndentifier |-> Member(secretData, "credIndetifier", ""),
          Credential |-> Member(secretData, "credential", EmptyMap)]
    ELSE [err |-> JsonError]

----------------------------------------------------------------------------
\* Collaborators of the job: internal/api and internal/client.

\* api.CredentialMountPath: the fixed mount root.
CredentialMountPath == "credential-mount"

\* api.PrepareCredentialSecretPath: a pure function of its three arguments
\* under which distinct triples give distinct paths.
PrepareCredentialSecretPath(credentialType, credEntityName, credIdentifier) ==
    <<credentialType, credEntityName, credIdentifier>>

VaultError == "vault: write refused"

\* (*VaultClient).PutCredential: the call, and whether the vault accepted it.
PutCredential(mountPath, secretPath, cred, accepted) ==
    [mountPath |-> mountPath, secretPath |-> secretPath, cred |-> cred,
     err |-> IF accepted THEN NilErr ELSE VaultError]

----------------------------------------------------------------------------
\* The three store operations.  Each yields the error it returns, the
\* PutCredential calls it made (none or one) and what it logged at info level.

StoreResult(err, calls, infos) == [err |-> err, put |-> calls, infos |-> infos]

\* The result of a store operation once it has called PutCredential.
AfterPut(call, stored) ==
    IF call.err # NilErr
    THEN StoreResult(WithMessagef(call.err, "failed to write secret data to vault"),
                     <<call>>, <<>>)
    ELSE StoreResult(NilErr, <<call>>, <<stored>>)

\* The empty-field test of storeServiceCredential.
ServiceCredentialEmpty(d) ==
    d.UserName = "" \/ d.Password = "" \/ d.EntityName = ""

\* The attribute map with the seeded keys written last.
ServiceCredentialSeedWins(d) ==
    (serviceCredentialUserNameKey :> d.UserName
     @@ serviceCredentialPasswordKey :> d.Password) @@ d.AdditionalData

\* The attribute map storeServiceCredential builds: userName and password,
\* then every key of AdditionalData assigned over them.
ServiceCredentialAttributes(d) ==
    d.AdditionalData @@ (serviceCredentialUserNameKey :> d.UserName
                         @@ serviceCredentialPasswordKey :> d.Password)

ServiceCredentialPath(d) ==
    PrepareCredentialSecretPath(ToLower(serviceCredSecretKeyPrefix),
                                d.EntityName, d.CredIndentifier)

storeServiceCredential(secretIdentifier, secretData, accepted) ==
    LET serviceCredData == UnmarshalServiceCredentail(secretData) IN
    IF serviceCredData.err # NilErr
    THEN StoreResult(WithMessagef(serviceCredData.err, "failed to parse secret data"),
                     <<>>, <<>>)
    ELSE IF ServiceCredentialEmpty(serviceCredData)
    THEN StoreResult(WithMessagef(serviceCredData.err, "credential attributes are emty"),
                     <<>>, <<>>)
    ELSE AfterPut(PutCredential(CredentialMountPath,
                                ServiceCredentialPath(serviceCredData),
                                ServiceCredentialAttributes(serviceCredData),
                                accepted),
                  "stored sync service credential")

\* The empty-field test of storeCertData.
CertDataEmpty(d) ==
    \/ d.CACert = "" \/ d.Cert = "" \/ d.Key = ""
    \/ d.EntityName = "" \/ d.CertIndentifier = ""

CertDataAttributes(d) ==
    caDataKey :> d.CACert @@ certDataKey :> d.Cert @@ keyDataKey :> d.Key

CertDataPath(d) ==
    PrepareCredentialSecretPath(ToLower(certSecretKeyPrefix),
                                d.EntityName, d.CertIndentifier)

storeCertData(secretIdentifier, secretData, accepted) ==
    LET certData == UnmarshalCertificateData(secretData) IN
    IF certData.err # NilErr
    THEN StoreResult(WithMessagef(certData.err, "failed to parse secret data"),
                     <<>>, <<>>)
    ELSE IF CertDataEmpty(certData)
    THEN StoreResult(WithMessagef(certData.err, "credential attributes are emty"),
                     <<>>, <<>>)
    ELSE AfterPut(PutCredential(CredentialMountPath,
                                CertDataPath(certData),
                                CertDataAttributes(certData),
                                accepted),
                  "stored sync cert")

\* The empty-field test of storeGenericCredential.
GenericCredentialEmpty(d) ==
    d.EntityName = "" \/ d.CredIndentifier = "" \/ Len(d.CredentialType) = 0

GenericCredentialAttributes(d) ==
    [key \in DOMAIN d.Credential |-> d.Credential[key]]

\* The path with the lower-cased key prefix as its type, as the two other
\* store operations build it.
GenericCredentialPathByPrefix(d) ==
    PrepareCredentialSecretPath(ToLower(genericSecretKeyPrefix),
                                d.EntityName, d.CredIndentifier)

GenericCredentialPath(d) ==
    PrepareCredentialSecretPath(d.CredentialType, d.EntityName, d.CredIndentifier)

storeGenericCredential(secretIdentifier, secretData, accepted) ==
    LET genericCredData == UnmarshalGenericCredential(secretData) IN
    IF genericCredData.err # NilErr
    THEN StoreResult(WithMessagef(genericCredData.err, "failed to parse secret data"),
                     <<>>, <<>>)
    ELSE IF GenericCredentialEmpty(genericCredData)
    THEN StoreResult(WithMessagef(genericCredData.err, "credential attributes are emty"),
                     <<>>, <<>>)
    ELSE AfterPut(PutCredential(CredentialMountPath,
                                GenericCredentialPath(genericCredData),
                                GenericCredentialAttributes(genericCredData),
                                accepted),
                  "stored sync credential")

----------------------------------------------------------------------------
\* One iteration of Run's range loop.

\* The chain with the prefixes compared without regard to case.
ClassifyFold(key) ==
    IF HasPrefix(ToLower(key), ToLower(serviceCredSecretKeyPrefix)) THEN "service"
    ELSE IF HasPrefix(ToLower(key), ToLower(certSecretKeyPrefix)) THEN "cert"
    ELSE IF HasPrefix(ToLower(key), ToLower(genericSecretKeyPrefix)) THEN "generic"
    ELSE "none"

\* The if / else-if chain over the key's prefix.
Classify(key) ==
    IF HasPrefix(key, serviceCredSecretKeyPrefix) THEN "service"
    ELSE IF HasPrefix(key, certSecretKeyPrefix) THEN "cert"
    ELSE IF HasPrefix(key, genericSecretKeyPrefix) THEN "generic"
    ELSE "none"

Dispatch(handler, key, secretValue, accepted) ==
    CASE handler = "service" -> storeServiceCredential(key, secretValue, accepted)
      [] handler = "cert" -> storeCertData(key, secretValue, accepted)
      [] handler = "generic" -> storeGenericCredential(key, secretValue, accepted)
      [] OTHER -> StoreResult(NilErr, <<>>, <<"credentail type not supported">>)

\* What Run logs with Errorf for the iteration: the returned error, if any.
ErrorsLogged(err) == IF err # NilErr THEN <<err>> ELSE <<>>

LoopBody(key, secretValue, accepted) ==
    LET handler == Classify(key)
        res == Dispatch(handler, key, secretValue, accepted)
    IN  [key |-> key, value |-> secretValue, handler |-> handler,
         err |-> res.err, errors |-> ErrorsLogged(res.err),
         infos |-> res.infos, put |-> res.put]

----------------------------------------------------------------------------
\* The Source Secrets the cluster may hold.

KeyServiceDb == serviceCredSecretKeyPrefix \o <<"-","d","b">>

KeyServiceB == serviceCredSecretKeyPrefix \o <<"-","b">>

KeyCertsWeb == certSecretKeyPrefix \o <<"-","w","e","b">>

KeyCertsBad == certSecretKeyPrefix \o <<"-","b","a","d">>

KeyGenericX == genericSecretKeyPrefix \o <<"-","x">>

KeyGenericBare == genericSecretKeyPrefix

KeyUnknownY == <<"U","N","K","N","O","W","N","-","y">>

KeyLowerService == ToLower(serviceCredSecretKeyPrefix) \o <<"-","x">>

KeyShortService == <<"S","E","R","V","I","C","E","-","C","R","E">>

KeyInnerCerts == <<"X">> \o certSecretKeyPrefix

KeyCertsGeneric == certSecretKeyPrefix \o genericSecretKeyPrefix

TypeApiKey == <<"a","p","i","-","k","e","y">>

TypeUpper == <<"A","P","I">>

SvcOrders ==
    Object("entityName" :> JStr("orders") @@ "credIndetifier" :> JStr("primary")
           @@ "userName" :> JStr("svc") @@ "password" :> JStr("p1"))

SvcOrdersP2 ==
    Object("entityName" :> JStr("orders") @@ "credIndetifier" :> JStr("primary")
           @@ "userName" :> JStr("svc") @@ "password" :> JStr("p2"))

SvcOverlay ==
    Object("entityName" :> JStr("billing") @@ "credIndetifier" :> JStr("primary")
           @@ "userName" :> JStr("svc") @@ "password" :> JStr("p1")
           @@ "additionalData" :> JObj("password" :> "p9" @@ "region" :> "eu"))

SvcNoUser ==
    Object("entityName" :> JStr("orders") @@ "credIndetifier" :> JStr("primary")
           @@ "userName" :> JStr("") @@ "password" :> JStr("p1"))

SvcNoIdentifier ==
    Object("entityName" :> JStr("orders")
           @@ "userName" :> JStr("svc") @@ "password" :> JStr("p1"))

SvcNumber ==
    Object("entityName" :> JStr("orders") @@ "credIndetifier" :> JStr("primary")
           @@ "userName" :> JNum(7) @@ "password" :> JStr("p1"))

CertWeb ==
    Object("entityName" :> JStr("web") @@ "certIndetifier" :> JStr("tls1")
           @@ "caCert" :> JStr("A") @@ "cert" :> JStr("B") @@ "key" :> JStr("C"))

CertNoKey ==
    Object("entityName" :> JStr("web") @@ "certIndetifier" :> JStr("tls1")
           @@ "caCert" :> JStr("A") @@ "cert" :> JStr("B"))

GenApiKey ==
    Object("credentialType" :> JStr(TypeApiKey) @@ "entityName" :> JStr("svc1")
           @@ "credIndetifier" :> JStr("k1") @@ "credential" :> JObj("token" :> "t"))

GenUpper ==
    Object("credentialType" :> JStr(TypeUpper) @@ "entityName" :> JStr("svc1")
           @@ "credIndetifier" :> JStr("k2") @@ "credential" :> JObj("token" :> "u"))

GenAsService ==
    Object("credentialType" :> JStr(ToLower(serviceCredSecretKeyPrefix))
           @@ "entityName" :> JStr("orders") @@ "credIndetifier" :> JStr("primary")
           @@ "credential" :> JObj("token" :> "t"))

GenNoType ==
    Object("entityName" :> JStr("svc1") @@ "credIndetifier" :> JStr("k1")
           @@ "credential" :> JObj("token" :> "t"))

SecretData ==
    { <<>>,
      KeyServiceDb :> SvcOrders,
      KeyCertsWeb :> CertWeb,
      KeyGenericX :> GenApiKey,
      KeyUnknownY :> Text,
      KeyServiceDb :> SvcNoUser @@ KeyCertsWeb :> CertNoKey @@ KeyGenericX :> GenNoType,
      KeyServiceDb :> SvcNoIdentifier,
      KeyServiceDb :> SvcNumber @@ KeyCertsWeb :> SvcOrders,
      KeyServiceDb :> SvcOverlay @@ KeyCertsWeb :> CertWeb
          @@ KeyGenericX :> GenUpper @@ KeyCertsBad :> Text,
      KeyServiceDb :> SvcOrders @@ KeyServiceB :> SvcOrdersP2,
      KeyServiceDb :> SvcOrders @@ KeyGenericX :> GenAsService,
      KeyLowerService :> SvcOrders @@ KeyGenericBare :> GenApiKey
          @@ KeyCertsGeneric :> CertWeb,
      KeyShortService :> SvcOrders @@ KeyInnerCerts :> CertWeb }

Sources == [Data : SecretData, LastUpdatedTime : Times]

----------------------------------------------------------------------------
\* Run.

\* The early-exit test written with !Before in place of Equal.
NoChangeNotBefore(cursor, fetchedTime) ==
    cursor # <<>> /\ cursor[1] >= fetchedTime

\* The early-exit test: a cursor exists and equals the fetched timestamp.
NoChange(cursor, fetchedTime) ==
    cursor # <<>> /\ TimeEqual(cursor[1], fetchedTime)

\* Where the straight-line part of Run ends: at one of its four returns, or
\* in the range loop.
RunStage(k8sOk, getOk, authOk, cursor, fetchedTime) ==
    IF ~k8sOk THEN "k8s"
    ELSE IF ~getOk THEN "fetch"
    ELSE IF NoChange(cursor, fetchedTime) THEN "nochange"
    ELSE IF ~authOk THEN "auth"
    ELSE "loop"

\* Run with the assignment of lines 125-126 left out.
CursorNeverSet(how, cursor, fetchedTime) == cursor

\* Run with the cursor assigned before the vault client is created.
CursorSetBeforeAuth(how, cursor, fetchedTime) ==
    IF how \in {"auth", "completed"} THEN <<fetchedTime>> ELSE cursor

\* v.lastUpdatedTime when Run returns: assigned only after the loop.
CursorAtReturn(how, cursor, fetchedTime) ==
    IF how = "completed" THEN <<fetchedTime>> ELSE cursor

Init ==
    /\ lastUpdatedTime = <<>>
    /\ pc = "idle"
    /\ outcome = "none"
    /\ source = [Data |-> <<>>, LastUpdatedTime |-> 1]
    /\ pending = {}
    /\ trace = <<>>
    /\ cursorBefore = <<>>
    /\ prev = [outcome |-> "none", time |-> 1, sameData |-> TRUE]

\* Run up to its first return or to the range loop.
RunBegin ==
    /\ pc = "idle"
    /\ \E s \in Sources, k8sOk \in BOOLEAN, getOk \in BOOLEAN, authOk \in BOOLEAN :
         LET stage == RunStage(k8sOk, getOk, authOk, lastUpdatedTime, s.LastUpdatedTime)
         IN  /\ source' = s
             /\ prev' = [outcome |-> outcome, time |-> source.LastUpdatedTime,
                          sameData |-> s.Data = source.Data]
             /\ cursorBefore' = lastUpdatedTime
             /\ trace' = <<>>
             /\ IF stage = "loop"
                THEN /\ pc' = "loop"
                     /\ outcome' = "running"
                     /\ pending' = DOMAIN s.Data
                     /\ UNCHANGED lastUpdatedTime
                ELSE /\ pc' = "idle"
                     /\ outcome' = stage
                     /\ pending' = {}
                     /\ lastUpdatedTime' =
                            CursorAtReturn(stage, lastUpdatedTime, s.LastUpdatedTime)

\* The loop with return in place of continue.
RemainingUntilError(keys, entry) ==
    IF entry.err # NilErr THEN {} ELSE keys \ {entry.key}

\* The keys still to visit after an iteration: whether or not the store
\* operation returned an error, the loop continues with the next key.
Remaining(keys, entry) == keys \ {entry.key}

\* One iteration of the range loop, over any key not visited yet.
RunEntry ==
    /\ pc = "loop"
    /\ \E key \in pending, accepted \in BOOLEAN :
         LET entry == LoopBody(key, source.Data[key], accepted)
         IN  /\ trace' = Append(trace, entry)
             /\ pending' = Remaining(pending, entry)
    /\ UNCHANGED <<lastUpdatedTime, pc, outcome, source, cursorBefore, prev>>

\* The end of the loop: the cursor is set and Run returns.
RunComplete ==
    /\ pc = "loop"
    /\ pending = {}
    /\ lastUpdatedTime' =
           CursorAtReturn("completed", lastUpdatedTime, source.LastUpdatedTime)
    /\ pc' = "idle"
    /\ outcome' = "completed"
    /\ UNCHANGED <<source, pending, trace, cursorBefore, prev>>

Next == RunBegin \/ RunEntry \/ RunComplete

Spec == Init /\ [][Next]_vars

----------------------------------------------------------------------------
\* The vault's contents at the paths a sequence of loop iterations wrote:
\* each accepted PutCredential overwrites what the path held.
RECURSIVE VaultAfter(_)
VaultAfter(entries) ==
    IF entries = <<>> THEN <<>>
    ELSE LET last == entries[Len(entries)]
             before == VaultAfter(SubSeq(entries, 1, Len(entries) - 1))
         IN  IF last.put # <<>> /\ last.put[1].err = NilErr
             THEN (last.put[1].secretPath :> last.put[1].cred) @@ before
             ELSE before

----------------------------------------------------------------------------
\* Vocabulary of the properties.

Fetched(o) == o \in {"nochange", "auth", "running", "completed"}

Completed == pc = "idle" /\ outcome = "completed"

SameTimestampAsBefore == prev.time = source.LastUpdatedTime

Iterations == DOMAIN trace

MadePut(i) == trace[i].put # <<>>

PutSucceeded(i) == MadePut(i) /\ trace[i].put[1].err = NilErr

SucceededAt == {i \in Iterations : PutSucceeded(i)}

AllAccepted == \A i \in Iterations : MadePut(i) => PutSucceeded(i)

\* Every key of the Source Secret was visited, each once.
VisitedAll ==
    /\ Len(trace) = Cardinality(DOMAIN source.Data)
    /\ {trace[i].key : i \in Iterations} = DOMAIN source.Data

StartsWith(key, prefix) ==
    /\ Len(key) >= Len(prefix)
    /\ \A j \in 1 .. Len(prefix) : key[j] = prefix[j]

IsObject(doc) == doc.kind = "object"

HasString(doc, name) ==
    /\ name \in DOMAIN doc.fields
    /\ doc.fields[name].t = "str"

StringOf(doc, name) == IF HasString(doc, name) THEN doc.fields[name].v ELSE ""

FilledString(doc, name) == HasString(doc, name) /\ doc.fields[name].v # ""

FilledType(doc) ==
    HasString(doc, "credentialType") /\ Len(doc.fields["credentialType"].v) > 0

MapOf(doc, name) ==
    IF name \in DOMAIN doc.fields /\ doc.fields[name].t = "obj"
    THEN doc.fields[name].v ELSE <<>>

MapFits(doc, name) ==
    name \in DOMAIN doc.fields => doc.fields[name].t = "obj"

\* A well-formed entry: a key of a recognised type whose value is an object
\* carrying every identifying and required field of that type, non-empty.
WellFormedEntry(key, doc) ==
    /\ IsObject(doc)
    /\ \/ /\ StartsWith(key, serviceCredSecretKeyPrefix)
          /\ \A n \in {"entityName", "credIndetifier", "userName", "password"} :
                FilledString(doc, n)
          /\ MapFits(doc, "additionalData")
       \/ /\ StartsWith(key, certSecretKeyPrefix)
          /\ \A n \in {"entityName", "certIndetifier", "caCert", "cert", "key"} :
                FilledString(doc, n)
       \/ /\ StartsWith(key, genericSecretKeyPrefix)
          /\ \A n \in {"entityName", "credIndetifier"} : FilledString(doc, n)
          /\ FilledType(doc)
          /\ MapFits(doc, "credential")

MalformedKeys(data) == {k \in DOMAIN data : ~IsObject(data[k])}

WellFormedKeys(data) == {k \in DOMAIN data : WellFormedEntry(k, data[k])}

OneMalformedRestWellFormed(data) ==
    /\ Cardinality(MalformedKeys(data)) = 1
    /\ MalformedKeys(data) \cup WellFormedKeys(data) = DOMAIN data

----------------------------------------------------------------------------
\* C1 as stated: whenever two consecutive cycles meet the same Source Secret
\* timestamp, the second makes no PutCredential call, whatever the first did
\* (a first cycle that aborted at fetch or at vault authentication included).
C1_SecondCycleNeverWrites ==
    (prev.outcome # "none" /\ Fetched(outcome) /\ SameTimestampAsBefore
     /\ prev.sameData)
        => \A i \in Iterations : ~MadePut(i)

\* C1 amended: when the first of two consecutive cycles fetched the secret and
\* either early-exited or ran its loop to the cursor update, and the second
\* fetches the same timestamp, the second early-exits: it never enters the
\* loop and makes no PutCredential call.
C1_SecondCycleNoOp ==
    (prev.outcome \in {"nochange", "completed"} /\ Fetched(outcome)
     /\ SameTimestampAsBefore)
        => /\ pc = "idle"
           /\ outcome = "nochange"
           /\ trace = <<>>

C1_Witness ==
    /\ prev.outcome = "completed"
    /\ SameTimestampAsBefore
    /\ outcome = "nochange"
    /\ source.Data # <<>>
    /\ trace = <<>>

\* C2: a completed cycle over a secret with one undecodable entry and N
\* well-formed entries, every write accepted, made exactly N successful
\* PutCredential calls, visited every entry and left the cursor at the fetched
\* timestamp; and no iteration of the loop ever drops an unvisited key.
C2_EntryIsolation ==
    /\ pc = "loop" =>
          /\ {trace[i].key : i \in Iterations} \cup pending = DOMAIN source.Data
          /\ Len(trace) + Cardinality(pending) = Cardinality(DOMAIN source.Data)
    /\ (Completed /\ AllAccepted /\ OneMalformedRestWellFormed(source.Data)) =>
          /\ Cardinality(SucceededAt)
                = Cardinality(WellFormedKeys(source.Data))
          /\ {trace[i].key : i \in SucceededAt}
                = WellFormedKeys(source.Data)
          /\ VisitedAll
          /\ lastUpdatedTime = <<source.LastUpdatedTime>>

C2_Witness ==
    /\ Completed
    /\ AllAccepted
    /\ OneMalformedRestWellFormed(source.Data)
    /\ {trace[i].handler : i \in SucceededAt}
          = {"service", "cert", "generic"}
    /\ trace[1].err # NilErr
    /\ Len(trace) = 4
    /\ cursorBefore # <<source.LastUpdatedTime>>

\* C3: a cycle that returned because the Kubernetes client, GetSecret or the
\* vault authentication failed made no PutCredential call and left the cursor
\* as it was; a cycle after an abort at authentication that fetches the same
\* timestamp does not early-exit, and a completed cycle after any abort has
\* visited every entry.
C3_AbortLeavesCursor ==
    /\ (pc = "idle" /\ outcome \in {"k8s", "fetch", "auth"}) =>
          /\ trace = <<>>
          /\ lastUpdatedTime = cursorBefore
    /\ (prev.outcome = "auth" /\ Fetched(outcome) /\ SameTimestampAsBefore) =>
          outcome # "nochange"
    /\ (prev.outcome \in {"k8s", "fetch", "auth"} /\ Completed) => VisitedAll

C3_Witness ==
    /\ prev.outcome = "auth"
    /\ SameTimestampAsBefore
    /\ Completed
    /\ cursorBefore # <<>>
    /\ \E i \in Iterations : PutSucceeded(i)

\* C9: a cycle that fetched the secret early-exited exactly when a cursor
\* existed and equalled the fetched timestamp; otherwise it went on to the
\* vault authentication, and once completed it has visited every entry and
\* set the cursor to the fetched timestamp, be it earlier than the cursor.
C9_SkipIffEqual ==
    /\ Fetched(outcome) =>
          (outcome = "nochange"
              <=> (cursorBefore # <<>> /\ cursorBefore[1] = source.LastUpdatedTime))
    /\ Completed => (VisitedAll /\ lastUpdatedTime = <<source.LastUpdatedTime>>)

C9_Witness ==
    /\ Completed
    /\ cursorBefore # <<>>
    /\ source.LastUpdatedTime < cursorBefore[1]
    /\ lastUpdatedTime = <<source.LastUpdatedTime>>
    /\ Len(trace) >= 2

----------------------------------------------------------------------------
\* What the entry of iteration i is, read from its key and JSON value.

\* The value decodes into the record type of the entry's handler.
Decodes(i) ==
    LET doc == trace[i].value IN
    /\ IsObject(doc)
    /\ \A n \in DOMAIN doc.fields :
          \/ /\ trace[i].handler = "service"
             /\ n \in {"entityName", "credIndetifier", "userName", "password"}
                   => doc.fields[n].t = "str"
             /\ n = "additionalData" => doc.fields[n].t = "obj"
          \/ /\ trace[i].handler = "cert"
             /\ n \in {"entityName", "certIndetifier", "caCert", "cert", "key"}
                   => doc.fields[n].t = "str"
          \/ /\ trace[i].handler = "generic"
             /\ n \in {"credentialType", "entityName", "credIndetifier"}
                   => doc.fields[n].t = "str"
             /\ n = "credential" => doc.fields[n].t = "obj"

\* The fields each store operation tests for emptiness.
TestedFields(handler) ==
    CASE handler = "service" -> {"userName", "password", "entityName"}
      [] handler = "cert" -> {"caCert", "cert", "key", "entityName", "certIndetifier"}
      [] handler = "generic" -> {"entityName", "credIndetifier"}
      [] OTHER -> {}

PassesValidation(i) ==
    /\ \A n \in TestedFields(trace[i].handler) : FilledString(trace[i].value, n)
    /\ trace[i].handler = "generic" => FilledType(trace[i].value)

\* The identifying and required fields of each variant of Credential Record.
RequiredFields(handler) ==
    CASE handler = "service" -> {"entityName", "credIndetifier", "userName", "password"}
      [] handler = "cert" -> {"entityName", "certIndetifier", "caCert", "cert", "key"}
      [] handler = "generic" -> {"entityName", "credIndetifier"}
      [] OTHER -> {}

AllRequiredFilled(i) ==
    /\ \A n \in RequiredFields(trace[i].handler) : FilledString(trace[i].value, n)
    /\ trace[i].handler = "generic" => FilledType(trace[i].value)

IdentifierOf(i) ==
    IF trace[i].handler = "cert"
    THEN StringOf(trace[i].value, "certIndetifier")
    ELSE StringOf(trace[i].value, "credIndetifier")

\* userName and password overlaid by the additional attributes.
Overlaid(doc) ==
    LET extra == MapOf(doc, "additionalData") IN
    [k \in {"userName", "password"} \cup DOMAIN extra |->
        IF k \in DOMAIN extra THEN extra[k] ELSE StringOf(doc, k)]

\* C4 as stated: an entry that decodes but has one of the fields its store
\* operation tests empty makes the operation return an error, which Run logs,
\* and causes no PutCredential call.
C4_ValidationErrorLogged ==
    \A i \in Iterations :
        (trace[i].handler # "none" /\ Decodes(i) /\ ~PassesValidation(i)) =>
            /\ trace[i].err # NilErr
            /\ trace[i].errors = <<trace[i].err>>
            /\ ~MadePut(i)

\* C5 as stated: every PutCredential call is for a record whose identifying
\* and required fields are all non-empty, so that no path is built from an
\* empty entity name or an empty identifier.
C5_WritesOnlyCompleteRecords ==
    \A i \in Iterations :
        MadePut(i) =>
            /\ AllRequiredFilled(i)
            /\ trace[i].put[1].secretPath[2] # ""
            /\ trace[i].put[1].secretPath[3] # ""

\* C6: every iteration's handler is the first of SERVICE-CRED, CERTS, GENERIC
\* the key starts with, a key starting with none of them goes to no handler,
\* returns no error and makes no PutCredential call, and a completed cycle has
\* dispatched every key once and set the cursor.
C6_DispatchByFirstPrefix ==
    /\ \A i \in Iterations :
          /\ trace[i].handler = "service"
                <=> StartsWith(trace[i].key, serviceCredSecretKeyPrefix)
          /\ trace[i].handler = "cert"
                <=> /\ ~StartsWith(trace[i].key, serviceCredSecretKeyPrefix)
                    /\ StartsWith(trace[i].key, certSecretKeyPrefix)
          /\ trace[i].handler = "generic"
                <=> /\ ~StartsWith(trace[i].key, serviceCredSecretKeyPrefix)
                    /\ ~StartsWith(trace[i].key, certSecretKeyPrefix)
                    /\ StartsWith(trace[i].key, genericSecretKeyPrefix)
          /\ trace[i].handler \in {"service", "cert", "generic", "none"}
          /\ trace[i].handler = "none" =>
                (~MadePut(i) /\ trace[i].err = NilErr /\ trace[i].errors = <<>>)
    /\ Completed => (VisitedAll /\ lastUpdatedTime = <<source.LastUpdatedTime>>)

C6_Witness ==
    /\ Completed
    /\ lastUpdatedTime = <<source.LastUpdatedTime>>
    /\ \E i, j, k \in Iterations :
          /\ trace[i].key = KeyLowerService /\ trace[i].handler = "none"
          /\ trace[j].key = KeyGenericBare /\ PutSucceeded(j)
          /\ trace[k].key = KeyCertsGeneric /\ trace[k].handler = "cert"
                /\ PutSucceeded(k)

\* C7: the attributes storeServiceCredential writes are userName and password
\* of the record overlaid by additionalData: every additionalData key carries
\* its additionalData value, userName and password included.
C7_AdditionalDataWins ==
    \A i \in Iterations :
        (trace[i].handler = "service" /\ MadePut(i)) =>
            LET cred == trace[i].put[1].cred
                extra == MapOf(trace[i].value, "additionalData")
            IN  /\ DOMAIN cred = {"userName", "password"} \cup DOMAIN extra
                /\ \A k \in DOMAIN extra : cred[k] = extra[k]
                /\ \A k \in {"userName", "password"} \ DOMAIN extra :
                      cred[k] = StringOf(trace[i].value, k)

C7_Witness ==
    \E i \in Iterations :
        /\ trace[i].handler = "service"
        /\ PutSucceeded(i)
        /\ StringOf(trace[i].value, "password") = "p1"
        /\ trace[i].put[1].cred["password"] = "p9"
        /\ trace[i].put[1].cred["region"] = "eu"
        /\ trace[i].put[1].cred["userName"] = "svc"

\* C8: every entry that decodes and passes its store operation's emptiness
\* test causes exactly one PutCredential call, under the credential mount
\* path, at the path of (type, entity name, identifier), the type being
\* service-cred, certs, or the record's own credentialType, with the
\* attributes of its variant.
C8_OnePutPerValidEntry ==
    \A i \in Iterations :
        (trace[i].handler # "none" /\ Decodes(i) /\ PassesValidation(i)) =>
            LET doc == trace[i].value
                type == CASE trace[i].handler = "service" ->
                               <<"s","e","r","v","i","c","e","-","c","r","e","d">>
                          [] trace[i].handler = "cert" -> <<"c","e","r","t","s">>
                          [] OTHER -> doc.fields["credentialType"].v
                attributes ==
                        CASE trace[i].handler = "service" -> Overlaid(doc)
                          [] trace[i].handler = "cert" ->
                               [k \in {"ca.pem", "cert.crt", "key.key"} |->
                                   CASE k = "ca.pem" -> StringOf(doc, "caCert")
                                     [] k = "cert.crt" -> StringOf(doc, "cert")
                                     [] OTHER -> StringOf(doc, "key")]
                          [] OTHER -> MapOf(doc, "credential")
            IN  /\ Len(trace[i].put) = 1
                /\ \A j \in Iterations : trace[j].key = trace[i].key => j = i
                /\ trace[i].put[1].mountPath = CredentialMountPath
                /\ trace[i].put[1].secretPath =
                      PrepareCredentialSecretPath(type, StringOf(doc, "entityName"),
                                                  IdentifierOf(i))
                /\ trace[i].put[1].cred = attributes

C8_Witness ==
    /\ Completed
    /\ \E i, j, k \in Iterations :
          /\ trace[i].handler = "service" /\ PutSucceeded(i)
                /\ trace[i].put[1].secretPath[3] = "primary"
          /\ trace[j].handler = "cert" /\ PutSucceeded(j)
                /\ DOMAIN trace[j].put[1].cred = {"ca.pem", "cert.crt", "key.key"}
          /\ trace[k].handler = "generic" /\ PutSucceeded(k)
                /\ trace[k].key = KeyGenericX
                /\ trace[k].put[1].secretPath[1] = TypeUpper

\* The orders in which the range loop may visit the keys of a secret.
Orders(keys) ==
    {o \in [1 .. Cardinality(keys) -> keys] :
        \A a, b \in DOMAIN o : o[a] = o[b] => a = b}

\* The loop run over the keys in the given order, every write accepted.
TraceInOrder(data, order) ==
    [n \in DOMAIN order |-> LoopBody(order[n], data[order[n]], TRUE)]

\* C10 as stated: with every write accepted, the vault contents a completed
\* cycle leaves at the paths it wrote are those every other iteration order
\* of the same Source Secret leaves.
C10_OrderIndependent ==
    (Completed /\ AllAccepted) =>
        \A order \in Orders(DOMAIN source.Data) :
            VaultAfter(TraceInOrder(source.Data, order)) = VaultAfter(trace)

====
